---- MODULE Spec2Model ----
(***************************************************************************)
(* Model of tutorials/sphinx_tuto/tensorclass_imagenet.py:                 *)
(*   - ImageNetData.from_dataset (lines 224-249): allocation of the        *)
(*     memory-mapped store, the DataLoader-driven population loop with its *)
(*     write cursor i, and the return of the store;                        *)
(*   - the module-level binding of the store and the DataLoader built on   *)
(*     it (lines 257-258, 313-324);                                        *)
(*   - Collate.__call__ (lines 275-290): contiguous / to(device) /         *)
(*     transform on the images field.                                      *)
(* An image is abstracted to one pixel value, kept as an exact rational    *)
(* [num, den]; every stored cell carries the source position it was        *)
(* produced from (src), which is history information, not program state.   *)
(***************************************************************************)
EXTENDS Integers, Sequences, FiniteSets, TLC

\* ------------------------------------------------------------------ bounds
\* len(dataset) ranges over q * batch + r, q in 0..MaxFull, r in 0..MaxRem
MaxFull == 2
MaxRem == 2
\* NUM_WORKERS ranges over 0..MaxWorkers
MaxWorkers == 2
\* longest index list handed to a read
MaxIdx == 2

\* ------------------------------------------------------- program constants
\* line 237: batch = 64
batch == 64
\* torch DataLoader default prefetch_factor, used by the loader of line 238
PrefetchFactor == 2

VARIABLES
    n,            \* len(dataset)
    kind,         \* which dataset is loaded: "raw" (train_data_raw) or "val" (val_data)
    negcast,      \* what the build does when a negative float is stored as uint8
    nw,           \* num_workers of the DataLoader of from_dataset (NUM_WORKERS)
    pc,           \* position of the script: "start", "loop", "returned", "aborted"
    data,         \* the memory-mapped tensorclass: [images, targets], one cell per record
    writes,       \* history: how many times each index was written
    i,            \* the write cursor of from_dataset
    received,     \* history: records in the batches received so far
    send_idx,     \* DataLoader iterator: next batch to dispatch
    rcvd_idx,     \* DataLoader iterator: next batch to yield
    task,         \* per batch: "unsent", "sent", "ok" or "err"
    data_queue,   \* results in completion order, not yet pulled by the coordinator
    stash,        \* results pulled out of order, kept until their turn
    ooo,          \* history of the loader: some result was pulled out of order
    err,          \* the exception that ended from_dataset, if any
    rd,           \* position of the reader: "idle","fetched","ram","moved","done","error"
    indices,      \* the index list of the current read
    cfg,          \* the Collate instance in use: [transform, device]
    out,          \* the working batch of the current read
    after_err     \* history: the read before the one just fetched raised

vars == <<n, kind, negcast, nw, pc, data, writes, i, received, send_idx, rcvd_idx,
          task, data_queue, stash, ooo, err, rd, indices, cfg, out, after_err>>

popVars == <<nw, data, writes, i, received, send_idx, rcvd_idx, task, data_queue, stash,
             ooo, err>>
inputVars == <<n, kind, negcast>>
readVars == <<rd, indices, cfg, out, after_err>>

\* ----------------------------------------------------------------- helpers
Min(a, b) == IF a < b THEN a ELSE b
Max(a, b) == IF a > b THEN a ELSE b

Rat(a, b) == [num |-> a, den |-> b]
RatEq(x, y) == x.num * y.den = y.num * x.den

\* ------------------------------------------------------------ the datasets
\* train_data_raw (lines 126-131): Resize + PILToTensor, uint8 pixels 0..255.
\* val_data (lines 90-97, 110): ToTensor + Normalize, float32 pixels in about
\* [-2.1, 2.6]; the model takes the halves -2.0, -1.5, ..., 2.5.
Image(k, p) == IF k = "raw" THEN Rat(p % 256, 1) ELSE Rat((p % 10) - 4, 2)

\* ImageFolder class index (hymenoptera: ants / bees), an int64
Target(k, p) == p % 2

\* ------------------------------------------------------------ the store
\* lines 226-235: uint8 images, int64 targets, zero-filled, len(dataset) rows
ZeroCell == [val |-> 0, src |-> -1]
EmptyStore == [images |-> << >>, targets |-> << >>]
Allocated(len) == [images |-> [p \in 1..len |-> ZeroCell],
                   targets |-> [p \in 1..len |-> ZeroCell]]

\* Storing a value into the uint8 images tensor (dtype of line 230): the
\* fraction is dropped (truncation toward zero); a value below zero after
\* truncation has no defined uint8 result and gives what the build gives.
TruncZero(x) == IF x.num >= 0 THEN x.num \div x.den ELSE -((-x.num) \div x.den)
CastUint8(x, nc) ==
    LET t == TruncZero(x)
    IN  IF t >= 0 THEN t % 256
        ELSE IF nc = "wrap" THEN t % 256 ELSE 0

\* ------------------------------------------------------------ the batches
NumBatches_floor(len) == len \div batch
\* DataLoader(dataset, batch_size=batch), drop_last at its default False
NumBatches(len) == (len + batch - 1) \div batch

BatchStart(b) == b * batch

\* line 242: _batch = image.shape[0]
BatchLen(len, b) == Min(batch, len - BatchStart(b))

\* the worker a batch is sent to (round robin); a loader without workers
\* produces the batches in the main process
WorkerOf(b, workers) == b % Max(workers, 1)

\* how many batches may be outstanding
Outstanding(workers) == IF workers = 0 THEN 1 ELSE PrefetchFactor * workers

NextCursor_short(cur, len) == cur + len - 1
\* line 247: i += _batch
NextCursor(cur, len) == cur + len

\* lines 244-246: data[i : i + _batch] = cls(images=image, targets=target, ...)
\* for batch b of the dataset, written at cursor cur
SetSlice(d, k, nc, cur, b, len) ==
    [images |-> [p \in 1..Len(d.images) |->
                    IF p - 1 >= cur /\ p - 1 < cur + len
                    THEN [val |-> CastUint8(Image(k, BatchStart(b) + (p - 1 - cur)), nc),
                          src |-> BatchStart(b) + (p - 1 - cur)]
                    ELSE d.images[p]],
     targets |-> [p \in 1..Len(d.targets) |->
                    IF p - 1 >= cur /\ p - 1 < cur + len
                    THEN [val |-> Target(k, BatchStart(b) + (p - 1 - cur)),
                          src |-> BatchStart(b) + (p - 1 - cur)]
                    ELSE d.targets[p]]]

CountSlice(w, cur, len) ==
    [p \in 1..Len(w) |-> IF p - 1 >= cur /\ p - 1 < cur + len THEN w[p] + 1 ELSE w[p]]

\* ------------------------------------------------------------ exceptions
NoErr == [exc |-> "none", worker |-> -1, range |-> << >>]
\* what the DataLoader re-raises: the worker's exception, naming the worker
WorkerError(w) == [exc |-> "WorkerError", worker |-> w, range |-> << >>]
IndexError == [exc |-> "IndexError", worker |-> -1, range |-> << >>]
ShapeError == [exc |-> "ShapeError", worker |-> -1, range |-> << >>]

\* ---------------------------------------------------------------- Init
Lens == {q * batch + r : q \in 0..MaxFull, r \in 0..MaxRem}

NoBatch == [images |-> << >>, targets |-> << >>, mapped |-> FALSE, device |-> "none"]

Init ==
    /\ n \in Lens
    /\ kind \in {"raw", "val"}
    /\ negcast \in {"wrap", "zero"}
    /\ kind = "raw" => negcast = "wrap"
    /\ nw = 0
    /\ pc = "start"
    /\ data = EmptyStore
    /\ writes = << >>
    /\ i = 0
    /\ received = 0
    /\ send_idx = 0
    /\ rcvd_idx = 0
    /\ task = << >>
    /\ data_queue = << >>
    /\ stash = {}
    /\ ooo = FALSE
    /\ err = NoErr
    /\ rd = "idle"
    /\ indices = << >>
    /\ cfg = [transform |-> FALSE, device |-> "none"]
    /\ out = NoBatch
    /\ after_err = FALSE

\* ------------------------------------------------- from_dataset: allocation
\* lines 226-240: dataset[0] raises on an empty dataset; otherwise the store is
\* allocated and the DataLoader, built with NUM_WORKERS = workers, dispatches
\* its first batches when the loop of line 241 starts it
Allocate(workers) ==
    /\ pc = "start"
    /\ IF n = 0
       THEN /\ pc' = "aborted"
            /\ err' = IndexError
            /\ UNCHANGED <<nw, data, writes, i, received, send_idx, rcvd_idx, task,
                           data_queue, stash, ooo>>
       ELSE /\ pc' = "loop"
            /\ nw' = workers
            /\ data' = Allocated(n)
            /\ writes' = [p \in 1..n |-> 0]
            /\ i' = 0
            /\ send_idx' = Min(NumBatches(n), Outstanding(workers))
            /\ task' = [b \in 1..NumBatches(n) |->
                          IF b - 1 < Min(NumBatches(n), Outstanding(workers))
                          THEN "sent" ELSE "unsent"]
            /\ UNCHANGED <<received, rcvd_idx, data_queue, stash, ooo, err>>
    /\ UNCHANGED inputVars
    /\ UNCHANGED readVars

\* ------------------------------------------------- the DataLoader's workers
\* a worker finishes the oldest batch it was sent: it produced the batch or
\* an exception; the result enters the result queue in completion order
WorkerDone(b, res) ==
    /\ pc = "loop"
    /\ b \in 0..(NumBatches(n) - 1)
    /\ task[b + 1] = "sent"
    /\ \A c \in 0..(b - 1) :
          WorkerOf(c, nw) = WorkerOf(b, nw) => task[c + 1] # "sent"
    /\ task' = [task EXCEPT ![b + 1] = res]
    /\ data_queue' = Append(data_queue, b)
    /\ UNCHANGED <<pc, nw, data, writes, i, received, send_idx, rcvd_idx, stash, ooo, err>>
    /\ UNCHANGED inputVars
    /\ UNCHANGED readVars

\* ------------------------------------------------- the population loop
InOrder_any(idx, rcvd) == TRUE
\* the DataLoader yields batch idx only when it is the next one in input order
InOrder(idx, rcvd) == idx = rcvd

Raises_never(res) == FALSE
\* a batch whose worker raised is re-raised in the coordinator
Raises(res) == res = "err"

\* line 241 yielding batch b, then the loop body of lines 242-247
Deliver(b) ==
    /\ rcvd_idx' = rcvd_idx + 1
    /\ IF send_idx < NumBatches(n)
       THEN /\ send_idx' = send_idx + 1
            /\ task' = [task EXCEPT ![send_idx + 1] = "sent"]
       ELSE UNCHANGED <<send_idx, task>>
    /\ IF Raises(task[b + 1])
       THEN /\ pc' = "aborted"
            /\ err' = WorkerError(WorkerOf(b, nw))
            /\ UNCHANGED <<data, writes, i, received>>
       ELSE LET len == BatchLen(n, b)
            IN  IF i + len > n
                THEN /\ pc' = "aborted"
                     /\ err' = ShapeError
                     /\ UNCHANGED <<data, writes, i, received>>
                ELSE /\ data' = SetSlice(data, kind, negcast, i, b, len)
                     /\ writes' = CountSlice(writes, i, len)
                     /\ i' = NextCursor(i, len)
                     /\ received' = received + len
                     /\ UNCHANGED <<pc, err>>

\* the next batch in input order was pulled earlier and is waiting
ReceiveStashed ==
    /\ pc = "loop"
    /\ rcvd_idx < send_idx
    /\ rcvd_idx \in stash
    /\ stash' = stash \ {rcvd_idx}
    /\ Deliver(rcvd_idx)
    /\ UNCHANGED <<nw, data_queue, ooo>>
    /\ UNCHANGED inputVars
    /\ UNCHANGED readVars

\* the coordinator pulls the oldest completed result: it is the next batch in
\* input order and is yielded, or it is kept until its turn
ReceiveQueue ==
    /\ pc = "loop"
    /\ rcvd_idx < send_idx
    /\ rcvd_idx \notin stash
    /\ data_queue # << >>
    /\ data_queue' = Tail(data_queue)
    /\ UNCHANGED nw
    /\ IF InOrder(Head(data_queue), rcvd_idx)
       THEN /\ Deliver(Head(data_queue))
            /\ UNCHANGED <<stash, ooo>>
       ELSE /\ stash' = stash \cup {Head(data_queue)}
            /\ ooo' = TRUE
            /\ UNCHANGED <<pc, data, writes, i, received, send_idx, rcvd_idx, task, err>>
    /\ UNCHANGED inputVars
    /\ UNCHANGED readVars

Exhausted_early(rcvd, sent) == rcvd >= 1
\* the iterator stops when nothing dispatched is left to yield
Exhausted(rcvd, sent) == ~(rcvd < sent)

\* line 249, then the binding of lines 257-258: the loader and its state are dropped
Return ==
    /\ pc = "loop"
    /\ Exhausted(rcvd_idx, send_idx)
    /\ pc' = "returned"
    /\ nw' = 0
    /\ ooo' = FALSE
    /\ send_idx' = 0
    /\ rcvd_idx' = 0
    /\ task' = << >>
    /\ data_queue' = << >>
    /\ stash' = {}
    /\ UNCHANGED <<data, writes, i, received, err>>
    /\ UNCHANGED inputVars
    /\ UNCHANGED readVars

\* ------------------------------------------------- the read path
CanRead_always(at) == at \in {"returned", "aborted"}
\* the store is bound to a name (lines 257-258) and wrapped in a DataLoader
\* (lines 313-324) only once from_dataset has returned it
CanRead(at) == at = "returned"

\* the indices tried by the reads: both ends of the store, both sides of the
\* first batch boundary, and the first index past the end
ProbeIdx(len) == {0, batch - 1, batch, len - 1, len} \cap (0..len)
IdxLists(len) == UNION {[1..k -> ProbeIdx(len)] : k \in 0..MaxIdx}

Collates == [transform : BOOLEAN, device : {"none", "cuda:0"}]

InRange_incl(idx, len) == idx \in 0..len
\* the valid index range of a store of len records
InRange(idx, len) == idx \in 0..(len - 1)

RowAt(field, idx) == IF idx + 1 \in DOMAIN field THEN field[idx + 1] ELSE ZeroCell

\* data[indices]: a gather, one row per entry of the index list, in its order,
\* on every field; the rows are still the mapped ones
Get(d, idxs) ==
    [images |-> [k \in 1..Len(idxs) |->
                    [val |-> Rat(RowAt(d.images, idxs[k]).val, 1),
                     src |-> RowAt(d.images, idxs[k]).src]],
     targets |-> [k \in 1..Len(idxs) |-> RowAt(d.targets, idxs[k])],
     mapped |-> TRUE,
     device |-> "cpu"]

\* what data[indices] does on a store of len records: it gives the batch, or
\* raises when an index is outside the range; nothing else is looked at
GetOutcome(d, len, idxs) ==
    IF \A k \in 1..Len(idxs) : InRange(idxs[k], len)
    THEN "batch"
    ELSE "IndexOutOfRangeError"

\* the DataLoader fetches data[indices] and hands it to the collate function
Fetch(idxs) ==
    /\ CanRead(pc)
    /\ rd = "idle"
    /\ indices' = idxs
    /\ IF GetOutcome(data, n, idxs) = "batch"
       THEN /\ rd' = "fetched"
            /\ out' = Get(data, idxs)
            /\ UNCHANGED after_err
       ELSE /\ rd' = "error"
            /\ out' = NoBatch
            /\ after_err' = FALSE
    /\ UNCHANGED <<pc, cfg>>
    /\ UNCHANGED popVars
    /\ UNCHANGED inputVars

\* the caller catches the error of a read and goes on to its next read
Recover ==
    /\ rd = "error"
    /\ rd' = "idle"
    /\ indices' = << >>
    /\ after_err' = TRUE
    /\ UNCHANGED <<pc, cfg, out>>
    /\ UNCHANGED popVars
    /\ UNCHANGED inputVars

Contiguous_view(o) == o
\* line 283: out = x.apply(lambda x: x.contiguous()), the batch moved to RAM
Contiguous(o) == [o EXCEPT !.mapped = FALSE]

\* the collate function of the loader, Collate(transform, device), is called
MoveToRam(c) ==
    /\ rd = "fetched"
    /\ rd' = "ram"
    /\ cfg' = c
    /\ out' = Contiguous(out)
    /\ after_err' = FALSE
    /\ UNCHANGED <<pc, indices>>
    /\ UNCHANGED popVars
    /\ UNCHANGED inputVars

\* line 286: out.to(self.device), a copy unless the batch is on that device
To(o, dev) == IF o.device = dev THEN o ELSE [o EXCEPT !.device = dev, !.mapped = FALSE]

\* lines 284-286
Relocate ==
    /\ rd = "ram"
    /\ rd' = "moved"
    /\ out' = IF cfg.device # "none" THEN To(out, cfg.device) ELSE out
    /\ UNCHANGED <<pc, indices, cfg, after_err>>
    /\ UNCHANGED popVars
    /\ UNCHANGED inputVars

\* lines 195-199: InvAffine of collate_transform on the first channel,
\* (x - 0.485 * 255) / (0.229 * 255); the random crop and flip of lines
\* 200-201 act inside an image and leave the one pixel of the model alone
TransformVal(x) == Rat(1000 * x.num - 123675 * x.den, 58395 * x.den)

TransformImages_flip(imgs) ==
    [k \in 1..Len(imgs) |->
        [val |-> TransformVal(imgs[Len(imgs) + 1 - k].val),
         src |-> imgs[Len(imgs) + 1 - k].src]]
\* self.transform(out.images): batched, row k of the result from row k
TransformImages(imgs) ==
    [k \in 1..Len(imgs) |-> [val |-> TransformVal(imgs[k].val), src |-> imgs[k].src]]

\* assigning the images of a batch that is still the mapped rows writes them
\* into the store
WriteThrough(d, idxs, imgs, nc) ==
    [d EXCEPT !.images =
        [p \in 1..Len(d.images) |->
            IF \E k \in 1..Len(idxs) : idxs[k] = p - 1
            THEN LET k == CHOOSE j \in 1..Len(idxs) :
                              /\ idxs[j] = p - 1
                              /\ \A m \in 1..Len(idxs) : idxs[m] = p - 1 => m <= j
                 IN  [val |-> CastUint8(imgs[k].val, nc), src |-> imgs[k].src]
            ELSE d.images[p]]]

\* lines 287-289: out.images = self.transform(out.images)
Transform ==
    /\ rd = "moved"
    /\ rd' = "done"
    /\ IF cfg.transform
       THEN /\ out' = [out EXCEPT !.images = TransformImages(out.images)]
            /\ data' = IF out.mapped
                       THEN WriteThrough(data, indices, TransformImages(out.images), negcast)
                       ELSE data
       ELSE UNCHANGED <<out, data>>
    /\ UNCHANGED <<pc, indices, cfg, after_err>>
    /\ UNCHANGED <<nw, writes, i, received, send_idx, rcvd_idx, task, data_queue, stash,
                   ooo, err>>
    /\ UNCHANGED inputVars

\* the batch was handed to the training loop (lines 349-354) and is dropped
Consume ==
    /\ rd = "done"
    /\ rd' = "idle"
    /\ out' = NoBatch
    /\ indices' = << >>
    /\ after_err' = FALSE
    /\ UNCHANGED <<pc, cfg>>
    /\ UNCHANGED popVars
    /\ UNCHANGED inputVars

\* ------------------------------------------------- the specification
Next ==
    \/ \E workers \in 0..MaxWorkers : Allocate(workers)
    \/ \E b \in 0..MaxFull, res \in {"ok", "err"} : WorkerDone(b, res)
    \/ ReceiveStashed
    \/ ReceiveQueue
    \/ Return
    \/ \E idxs \in IdxLists(n) : Fetch(idxs)
    \/ Recover
    \/ \E c \in Collates : MoveToRam(c)
    \/ Relocate
    \/ Transform
    \/ Consume

Spec == Init /\ [][Next]_vars

\* ------------------------------------------------- the claims
\* what a store of len records holds when record p of the dataset sits at index p
Expected(len, k, nc) ==
    [images |-> [p \in 1..len |-> [val |-> CastUint8(Image(k, p - 1), nc), src |-> p - 1]],
     targets |-> [p \in 1..len |-> [val |-> Target(k, p - 1), src |-> p - 1]]]

Reading == rd \in {"fetched", "ram", "moved", "done"}

\* C1: when from_dataset has run to completion, every index of
\* [0, len(dataset)) has been written exactly once.
C1_WrittenExactlyOnce ==
    pc = "returned" => /\ Len(writes) = n
                       /\ \A p \in 1..n : writes[p] = 1

C1_Witness == pc = "returned" /\ n > batch /\ n % batch # 0

\* C2: whatever the order in which the workers finish, the store holds record
\* p of the dataset at index p when the loop has received every batch, and
\* when from_dataset has returned it.
C2_ContentIndependentOfSchedule ==
    (pc = "returned" \/ (pc = "loop" /\ rcvd_idx = (n + batch - 1) \div batch)) =>
        data = Expected(n, kind, negcast)

C2_Witness == pc = "loop" /\ rcvd_idx = (n + batch - 1) \div batch /\ ooo

\* C3: after a completed population, row k of data[indices] equals, in every
\* field, the input record at position indices[k].
C3_RoundTripExact ==
    rd = "fetched" =>
        \A k \in 1..Len(indices) :
            /\ RatEq(out.images[k].val, Image(kind, indices[k]))
            /\ out.targets[k].val = Target(kind, indices[k])

\* C4: no read of the store happens before every index has been written.
C4_CompleteBeforeRead ==
    rd # "idle" => /\ pc = "returned"
                   /\ \A p \in 1..n : writes[p] >= 1

C4_Witness == rd = "fetched" /\ n > batch /\ Len(indices) > 0

\* C5 as stated: a get on a store whose population was aborted raises
\* IncompleteStoreError, whatever the indices.
C5_AbortedGetRaises ==
    (pc = "aborted" /\ n > 0) =>
        \A idxs \in IdxLists(n) : GetOutcome(data, n, idxs) = "IncompleteStoreError"

\* C5 as amended: when the population is aborted the store is never returned,
\* so no read of it is ever started and no batch is ever taken from it.
C5_AbortedNeverRead ==
    pc = "aborted" => rd = "idle" /\ out = NoBatch

C5_Witness == pc = "aborted" /\ err.exc = "WorkerError" /\ i > 0 /\ i < n

\* C6 as stated: the exception that aborts the population identifies the
\* offset range of the failing batch.
C6_ErrorNamesRange ==
    (pc = "aborted" /\ err.exc = "WorkerError") =>
        err.range = <<i, i + BatchLen(n, rcvd_idx - 1)>>

\* C6 as amended: once the coordinator reaches a batch whose worker failed, the
\* population is aborted with the worker's exception; the failed batch is the
\* last one reached, nothing is written at or after its offset, and no record
\* is ever stored at an index other than its own source position.
C6_AbortNoSkip ==
    /\ pc \in {"loop", "aborted"} =>
          \A b \in 0..(Len(task) - 1) :
              (b < rcvd_idx /\ task[b + 1] = "err") =>
                  /\ pc = "aborted"
                  /\ err.exc = "WorkerError"
                  /\ b = rcvd_idx - 1
                  /\ \A p \in 1..Len(writes) : writes[p] > 0 => p - 1 < BatchStart(b)
    /\ \A p \in 1..Len(data.images) :
          /\ data.images[p].src \in {-1, p - 1}
          /\ data.targets[p].src \in {-1, p - 1}

C6_Witness ==
    /\ pc = "aborted"
    /\ err.exc = "WorkerError"
    /\ i > 0
    /\ \E b \in 0..(Len(task) - 1) : b >= rcvd_idx /\ task[b + 1] = "ok"

\* C7: no step taken once the store is in the hands of the readers (fetch,
\* contiguous, to(device), transform of the images) changes the store.
C7_ReadNeverWrites == [][pc = "returned" => data' = data]_vars

C7_Witness ==
    /\ rd = "done"
    /\ cfg.transform
    /\ cfg.device = "none"
    /\ Len(indices) > 0
    /\ out.images # Get(data, indices).images

\* C8: at every step of a read, every field of the working batch has as many
\* rows as the index list, and row k of the images and row k of the targets
\* both come from the record at indices[k].
C8_FieldsAligned ==
    Reading => /\ Len(out.images) = Len(indices)
               /\ Len(out.targets) = Len(indices)
               /\ \A k \in 1..Len(indices) :
                     /\ out.images[k].src = indices[k]
                     /\ out.targets[k].src = indices[k]

C8_Witness ==
    /\ rd = "done"
    /\ cfg.transform
    /\ Len(indices) = 2
    /\ indices[1] # indices[2]

C10_CursorInvariant ==
    pc \in {"loop", "returned", "aborted"} =>
        /\ i = received
        /\ i <= n
        /\ \A p \in 1..Len(writes) : (writes[p] >= 1) <=> (p - 1 < i)
        /\ pc = "loop" => i = Min(rcvd_idx * batch, n)
        /\ pc = "returned" => i = n

C10_Witness == pc = "returned" /\ i = n /\ n > batch /\ n % batch = 1

====
